---- MODULE Spec2Model ----
(***************************************************************************)
(* Model of FileUploader/file_uploader.py: the command upload_dataset.     *)
(*                                                                         *)
(* One invocation of upload_dataset is a run.  Two runs execute against    *)
(* the same schema service, object store and broker; a run's steps are its *)
(* external calls, each taken together with the local code that follows it *)
(* up to the next external call.  A call of an external service either     *)
(* returns or raises, which is the environment's choice.                   *)
(*                                                                         *)
(* Strings the code splits, joins or lower-cases (paths, bucket names) are *)
(* sequences of one-character strings.                                     *)
(***************************************************************************)
EXTENDS Integers, Sequences, FiniteSets, TLC

\* ---------------------------------------------------------------- bounds
MaxFiles == 2       \* records in the longest metadata document
MaxPathLen == 3     \* longest enumerated directory path (SpecBucket)
MaxSize == 1        \* largest dataset size get_dataset_size reports

Runs == {"r1", "r2"}

\* ------------------------------------------------------------ characters
Slash == "/"

MyDataPath == <<"a", "/", "b", "/", "M", "y", "D", "a", "t", "a">>
MyDataLower == <<"m", "y", "d", "a", "t", "a">>
PlainDir == <<"d">>
OtherBucket == <<"O">>

\* str.lower() on the characters that occur in the model
LowerChar(c) ==
    CASE c = "M" -> "m"
      [] c = "D" -> "d"
      [] c = "A" -> "a"
      [] OTHER -> c

Lower_Identity(s) == s
Lower(s) == [i \in 1..Len(s) |-> LowerChar(s[i])]

HasSlash(s) == \E i \in 1..Len(s) : s[i] = Slash

FirstSlash(s) == CHOOSE i \in 1..Len(s) : s[i] = Slash /\ \A j \in 1..(i-1) : s[j] # Slash

\* str.split('/')
RECURSIVE Split(_)
Split(s) ==
    IF ~HasSlash(s) THEN <<s>>
    ELSE <<SubSeq(s, 1, FirstSlash(s) - 1)>> \o Split(SubSeq(s, FirstSlash(s) + 1, Len(s)))

\* lines 82-88: the bucket name when the --bucket option is empty
DeriveBucket(dir) ==
    LET seg == IF HasSlash(dir) THEN Split(dir)[Len(Split(dir))] ELSE dir
    IN  Lower(seg)

ResolveBucket(opt, dir) == IF opt = <<>> THEN DeriveBucket(dir) ELSE opt

\* os.path.join(a, b)
PathJoin(a, b) ==
    IF b # <<>> /\ b[1] = Slash THEN b
    ELSE IF a = <<>> \/ a[Len(a)] = Slash THEN a \o b
    ELSE a \o <<Slash>> \o b

\* ---------------------------------------------------- metadata documents
FileNames == <<"1", "2", "3", "4">>
ImagePath(i) == <<"c", FileNames[i]>>
ImageType(i) == IF i % 2 = 1 THEN "jpg" ELSE "png"

PlainRecord(i) == [image_path |-> ImagePath(i), image_type |-> ImageType(i)]
\* a record that already carries a bucket field in the metadata file
StaleRecord(i) == [image_path |-> ImagePath(i), image_type |-> ImageType(i), bucket |-> <<"s">>]
\* a record the schema lets through without image_type
UntypedRecord(i) == [image_path |-> ImagePath(i)]

Doc(n, last) == [i \in 1..n |-> IF i < n THEN PlainRecord(i) ELSE last]

Docs ==
    {<<>>} \cup { Doc(MaxFiles, PlainRecord(MaxFiles)),
                  Doc(MaxFiles, StaleRecord(MaxFiles)),
                  Doc(MaxFiles, UntypedRecord(MaxFiles)) }

\* the command lines of the runs: (--dir_path, --bucket)
Configs ==
    { [dir |-> MyDataPath, opt |-> <<>>],
      [dir |-> PlainDir,   opt |-> MyDataLower],
      [dir |-> PlainDir,   opt |-> <<>>] }

PathChars == {"a", "M", Slash}

RECURSIVE SeqsUpTo(_, _)
SeqsUpTo(S, n) ==
    IF n = 0 THEN {<<>>}
    ELSE LET shorter == SeqsUpTo(S, n - 1)
         IN  shorter \cup { Append(s, c) : s \in { t \in shorter : Len(t) = n - 1 }, c \in S }

Paths == (SeqsUpTo(PathChars, MaxPathLen) \ {<<>>}) \cup {MyDataPath}

VARIABLES
    pc,                 \* the run's position in upload_dataset
    present,            \* whether the metadata file exists when the run starts
    schema,             \* the fetched schema, by what it makes of the metadata
    dir_path,           \* --dir_path
    bucket_opt,         \* --bucket as given on the command line
    metadata,           \* the parsed metadata document
    bucket,             \* the local variable bucket
    idx,                \* position of the for loop of line 106
    files,              \* indexing_metadata['files']
    img_format,         \* the set img_format
    indexing_metadata,  \* the finished indexing_metadata, {} until line 127
    log,                \* the external calls the run has made, in order
    echo,               \* what the run has printed with click.echo
    buckets,            \* the object store: existing buckets
    objects,            \* the object store: <<bucket, key>> of stored objects
    messages            \* the broker queue: published messages, in order

vars == <<pc, present, schema, dir_path, bucket_opt, metadata, bucket, idx, files, img_format,
          indexing_metadata, log, echo, buckets, objects, messages>>

\* ------------------------------------------------------------- helpers
\* an external call, as recorded in the run's log
Call(op, b, k, ok, res, mode) ==
    [op |-> op, bucket |-> b, key |-> k, ok |-> ok, res |-> res, mode |-> mode]

Said(r, what) == \E i \in 1..Len(echo[r]) : echo[r][i] = what

\* lines 58-61: the metadata file is read only if it exists
AfterExistsCheck_Ignore(exists) == "get_schema"
AfterExistsCheck(exists) == IF exists THEN "get_schema" ELSE "done"

\* lines 72-77: a validation error ends the run
AfterValidate_Ignore(valid) == "bucket_exists"
AfterValidate(valid) == IF valid THEN "bucket_exists" ELSE "done"

\* lines 96-100: the bucket is created only if bucket_exists said no
AfterBucketCheck_Always(found) == "make_bucket"
AfterBucketCheck_Abort(found) == IF found THEN "done" ELSE "make_bucket"
AfterBucketCheck(found) == IF found THEN "upload" ELSE "make_bucket"

\* lines 100, 130-132: an exception of make_bucket ends the run
AfterMakeBucket_Swallow(ok) == "upload"
AfterMakeBucket(ok) == IF ok THEN "upload" ELSE "done"

\* lines 111, 130-132: an exception of put_object ends the run
AfterPut_Swallow(ok) == "upload"
AfterPut(ok) == IF ok THEN "upload" ELSE "done"

\* lines 135-155: an exception of a broker call ends the run
AfterBroker_Retry(ok, next) == IF ok THEN next ELSE "connect"
AfterBroker(ok, next) == IF ok THEN next ELSE "done"

\* line 106: the loop takes the records in document order
RecordAt_Reversed(md, i) == md[Len(md) + 1 - i]
RecordAt(md, i) == md[i]

\* line 113: file_details['bucket'] = bucket
Annotate_SetDefault(fd, b) ==
    [k \in DOMAIN fd \cup {"bucket"} |-> IF k \in DOMAIN fd THEN fd[k] ELSE b]
Annotate(fd, b) ==
    [k \in DOMAIN fd \cup {"bucket"} |-> IF k = "bucket" THEN b ELSE fd[k]]

\* lines 107-108: the keys the loop body reads
HasKeys(fd) == {"image_path", "image_type"} \subseteq DOMAIN fd

\* make_bucket of the store: a bucket that exists is not created again
StoreCreates(b, bs) == b \notin bs

\* ------------------------------------------------------------------ Init
InitOver(commands) ==
    /\ pc = [r \in Runs |-> "start"]
    /\ present \in [Runs -> BOOLEAN]
    /\ schema = [r \in Runs |-> "none"]
    /\ \E c \in commands :
          /\ dir_path = [r \in Runs |-> c[r].dir]
          /\ bucket_opt = [r \in Runs |-> c[r].opt]
          /\ bucket = [r \in Runs |-> c[r].opt]
    /\ metadata = [r \in Runs |-> <<>>]
    /\ idx = [r \in Runs |-> 1]
    /\ files = [r \in Runs |-> <<>>]
    /\ img_format = [r \in Runs |-> {}]
    /\ indexing_metadata = [r \in Runs |-> {}]
    /\ log = [r \in Runs |-> <<>>]
    /\ echo = [r \in Runs |-> <<>>]
    /\ buckets = {}
    /\ objects = {}
    /\ messages = <<>>

Init == InitOver([Runs -> Configs])

\* --------------------------------------------------------------- actions
\* lines 57-61: the metadata file is looked up and parsed
LoadMetadata(r) ==
    /\ pc[r] = "start"
    /\ \E parses \in BOOLEAN, doc \in Docs :
          LET next == AfterExistsCheck(present[r]) IN
          IF next = "done"
          THEN /\ echo' = [echo EXCEPT ![r] = Append(@, "no_metadata_file")]
               /\ pc' = [pc EXCEPT ![r] = "done"]
               /\ UNCHANGED metadata
          ELSE IF present[r] /\ parses
          THEN /\ metadata' = [metadata EXCEPT ![r] = doc]
               /\ pc' = [pc EXCEPT ![r] = next]
               /\ UNCHANGED echo
          ELSE \* open() or json.load raises: nothing catches it
               /\ pc' = [pc EXCEPT ![r] = "crashed"]
               /\ UNCHANGED <<metadata, echo>>
    /\ UNCHANGED <<present, schema, dir_path, bucket_opt, bucket, idx, files, img_format,
                   indexing_metadata, log, buckets, objects, messages>>

\* lines 62-92: the schema is fetched, the metadata validated against it and
\* the bucket name resolved
ValidateMetadata(r) ==
    /\ pc[r] = "get_schema"
    /\ \E answer \in {"ok", "connection_error", "http_error", "other_error"},
          verdict \in {"accepts", "rejects", "broken"} :
          /\ log' = [log EXCEPT ![r] =
                        Append(@, Call("schema_get", <<>>, <<>>, answer = "ok", answer = "ok", answer))]
          /\ schema' = [schema EXCEPT ![r] = IF answer = "ok" THEN verdict ELSE "none"]
          /\ CASE answer = "connection_error" ->
                    /\ echo' = [echo EXCEPT ![r] = Append(@, "err_connect")]
                    /\ pc' = [pc EXCEPT ![r] = "done"]
                    /\ UNCHANGED bucket
               [] answer = "http_error" ->
                    /\ echo' = [echo EXCEPT ![r] = Append(@, "err_schema")]
                    /\ pc' = [pc EXCEPT ![r] = "done"]
                    /\ UNCHANGED bucket
               [] answer = "other_error" \/ (answer = "ok" /\ verdict = "broken") ->
                    /\ pc' = [pc EXCEPT ![r] = "crashed"]
                    /\ UNCHANGED <<echo, bucket>>
               [] OTHER ->
                    LET next == AfterValidate(verdict = "accepts") IN
                    IF next = "done"
                    THEN /\ echo' = [echo EXCEPT ![r] = Append(@, "err_validation")]
                         /\ pc' = [pc EXCEPT ![r] = "done"]
                         /\ UNCHANGED bucket
                    ELSE /\ echo' = [echo EXCEPT ![r] = Append(@, "validated")]
                         /\ bucket' = [bucket EXCEPT ![r] = ResolveBucket(bucket_opt[r], dir_path[r])]
                         /\ pc' = [pc EXCEPT ![r] = next]
    /\ UNCHANGED <<present, dir_path, bucket_opt, metadata, idx, files, img_format,
                   indexing_metadata, buckets, objects, messages>>

\* lines 95-97, 130-132: client.bucket_exists(bucket)
BucketExists(r) ==
    /\ pc[r] = "bucket_exists"
    /\ \E ok \in BOOLEAN :
          LET found == bucket[r] \in buckets
              next == IF ok THEN AfterBucketCheck(found) ELSE "done" IN
          /\ log' = [log EXCEPT ![r] =
                        Append(@, Call("bucket_exists", bucket[r], <<>>, ok, ok /\ found, ""))]
          /\ echo' = [echo EXCEPT ![r] =
                        IF ~ok \/ next = "done" THEN Append(@, "err_upload")
                        ELSE IF found THEN Append(@, "bucket_already_exists")
                        ELSE @]
          /\ pc' = [pc EXCEPT ![r] = next]
    /\ UNCHANGED <<present, schema, dir_path, bucket_opt, metadata, bucket, idx, files, img_format,
                   indexing_metadata, buckets, objects, messages>>

\* lines 98-101, 130-132: client.make_bucket(bucket)
MakeBucket(r) ==
    /\ pc[r] = "make_bucket"
    /\ \E reached \in BOOLEAN :
          LET ok == reached /\ StoreCreates(bucket[r], buckets)
              next == AfterMakeBucket(ok) IN
          /\ log' = [log EXCEPT ![r] =
                        Append(@, Call("make_bucket", bucket[r], <<>>, ok, ok,
                                       IF reached /\ ~ok THEN "rejected" ELSE ""))]
          /\ buckets' = IF ok THEN buckets \cup {bucket[r]} ELSE buckets
          /\ echo' = [echo EXCEPT ![r] =
                        IF next = "done" THEN Append(@, "err_upload")
                        ELSE IF ok THEN Append(@, "bucket_created")
                        ELSE @]
          /\ pc' = [pc EXCEPT ![r] = next]
    /\ UNCHANGED <<present, schema, dir_path, bucket_opt, metadata, bucket, idx, files, img_format,
                   indexing_metadata, objects, messages>>

\* lines 106-114, 130-132: one turn of the loop over the metadata records
PutObject(r) ==
    /\ pc[r] = "upload"
    /\ idx[r] <= Len(metadata[r])
    /\ LET file_details == RecordAt(metadata[r], idx[r]) IN
       IF ~HasKeys(file_details)
       THEN \* KeyError
            /\ img_format' = img_format
            /\ echo' = [echo EXCEPT ![r] = Append(@, "err_upload")]
            /\ pc' = [pc EXCEPT ![r] = "done"]
            /\ UNCHANGED <<idx, files, log, objects>>
       ELSE
         LET file_path == PathJoin(dir_path[r], file_details.image_path) IN
         /\ img_format' = [img_format EXCEPT ![r] = @ \cup {file_details.image_type}]
         /\ \E opened \in BOOLEAN, stored \in BOOLEAN :
              IF ~opened
              THEN \* open(file_path, 'rb') raises
                   /\ echo' = [echo EXCEPT ![r] = Append(@, "err_upload")]
                   /\ pc' = [pc EXCEPT ![r] = "done"]
                   /\ UNCHANGED <<idx, files, log, objects>>
              ELSE
                LET ok == stored /\ bucket[r] \in buckets
                    next == AfterPut(ok) IN
                /\ log' = [log EXCEPT ![r] =
                              Append(@, Call("put_object", bucket[r], file_path, ok, ok, ""))]
                /\ objects' = IF ok THEN objects \cup {<<bucket[r], file_path>>} ELSE objects
                /\ files' = [files EXCEPT ![r] =
                                IF ok THEN Append(@, Annotate(file_details, bucket[r])) ELSE @]
                /\ idx' = [idx EXCEPT ![r] = IF next = "upload" THEN @ + 1 ELSE @]
                /\ echo' = [echo EXCEPT ![r] =
                               IF next = "done" THEN Append(@, "err_upload") ELSE @]
                /\ pc' = [pc EXCEPT ![r] = next]
    /\ UNCHANGED <<present, schema, dir_path, bucket_opt, metadata, bucket, indexing_metadata,
                   buckets, messages>>

\* lines 115-127, 130-132: the loop is over, the dataset is summarised
Summarize(r) ==
    /\ pc[r] = "upload"
    /\ idx[r] > Len(metadata[r])
    /\ \E sized \in BOOLEAN, size \in 0..MaxSize :
          IF sized
          THEN /\ indexing_metadata' = [indexing_metadata EXCEPT ![r] =
                     {[files |-> files[r],
                       dataset_name |-> bucket[r],
                       dataset_details |-> [name |-> dir_path[r],
                                            bucket |-> bucket[r],
                                            date |-> "today",
                                            size |-> size,
                                            filetype |-> img_format[r]]]}]
               /\ echo' = [echo EXCEPT ![r] = Append(@, "uploaded")]
               /\ pc' = [pc EXCEPT ![r] = "connect"]
          ELSE \* get_dataset_size raises
               /\ echo' = [echo EXCEPT ![r] = Append(@, "err_upload")]
               /\ pc' = [pc EXCEPT ![r] = "done"]
               /\ UNCHANGED indexing_metadata
    /\ UNCHANGED <<present, schema, dir_path, bucket_opt, metadata, bucket, idx, files, img_format,
                   log, buckets, objects, messages>>

\* a broker call that changes nothing in the queue
BrokerCall(r, at, op, mode, next) ==
    /\ pc[r] = at
    /\ \E ok \in BOOLEAN :
          LET to == AfterBroker(ok, next) IN
          /\ log' = [log EXCEPT ![r] = Append(@, Call(op, <<>>, <<>>, ok, ok, mode))]
          /\ echo' = [echo EXCEPT ![r] = IF ok THEN @ ELSE Append(@, "err_rabbit")]
          /\ pc' = [pc EXCEPT ![r] = to]
    /\ UNCHANGED <<present, schema, dir_path, bucket_opt, metadata, bucket, idx, files, img_format,
                   indexing_metadata, buckets, objects, messages>>

\* lines 137-139: pika.BlockingConnection(...) and connection.channel()
Connect(r) == BrokerCall(r, "connect", "connect", "", "declare")

\* line 142: channel.queue_declare(queue=queue, durable=True)
QueueDeclare(r) == BrokerCall(r, "declare", "queue_declare", "durable", "publish")

\* lines 145-148: channel.basic_publish(..., delivery_mode=2)
BasicPublish(r) ==
    /\ pc[r] = "publish"
    /\ \E ok \in BOOLEAN :
          LET to == AfterBroker(ok, "close") IN
          /\ log' = [log EXCEPT ![r] =
                        Append(@, Call("basic_publish", <<>>, <<>>, ok, ok, "persistent"))]
          /\ messages' = IF ok
                         THEN Append(messages,
                                     [by |-> r,
                                      body |-> CHOOSE m \in indexing_metadata[r] : TRUE,
                                      delivery_mode |-> 2])
                         ELSE messages
          /\ echo' = [echo EXCEPT ![r] = Append(@, IF ok THEN "sent" ELSE "err_rabbit")]
          /\ pc' = [pc EXCEPT ![r] = to]
    /\ UNCHANGED <<present, schema, dir_path, bucket_opt, metadata, bucket, idx, files, img_format,
                   indexing_metadata, buckets, objects>>

\* lines 151-155: connection.close()
Close(r) ==
    /\ pc[r] = "close"
    /\ \E ok \in BOOLEAN :
          /\ log' = [log EXCEPT ![r] = Append(@, Call("close", <<>>, <<>>, ok, ok, ""))]
          /\ echo' = [echo EXCEPT ![r] = IF ok THEN @ ELSE Append(@, "err_rabbit")]
          /\ pc' = [pc EXCEPT ![r] = "done"]
    /\ UNCHANGED <<present, schema, dir_path, bucket_opt, metadata, bucket, idx, files, img_format,
                   indexing_metadata, buckets, objects, messages>>

Next ==
    \E r \in Runs :
        \/ LoadMetadata(r)
        \/ ValidateMetadata(r)
        \/ BucketExists(r)
        \/ MakeBucket(r)
        \/ PutObject(r)
        \/ Summarize(r)
        \/ Connect(r)
        \/ QueueDeclare(r)
        \/ BasicPublish(r)
        \/ Close(r)

Spec == Init /\ [][Next]_vars

\* The bucket resolution alone: both runs are given the same command line,
\* over every directory path up to MaxPathLen, and run up to line 92.
BucketCommands ==
    { [r \in Runs |-> [dir |-> p, opt |-> o]] : p \in Paths, o \in {<<>>, OtherBucket} }

InitBucket == InitOver(BucketCommands)

NextBucket == \E r \in Runs : LoadMetadata(r) \/ ValidateMetadata(r)

SpecBucket == InitBucket /\ [][NextBucket]_vars

\* ------------------------------------------------------------ properties
Entries(r) == DOMAIN log[r]
OkPuts(r) == { i \in Entries(r) : log[r][i].op = "put_object" /\ log[r][i].ok }
StorageOps == {"bucket_exists", "make_bucket", "put_object"}
BrokerOps == {"connect", "queue_declare", "basic_publish", "close"}
CallsOf(r, ops) == { i \in Entries(r) : log[r][i].op \in ops }
PublishedBy(r) == { i \in DOMAIN messages : messages[i].by = r }
Finished(r) == pc[r] = "done"
\* what the run's successful put_object calls stored is in the store
PutsRemain(r) ==
    \A i \in OkPuts(r) :
        /\ log[r][i].bucket \in buckets
        /\ <<log[r][i].bucket, log[r][i].key>> \in objects

\* C1: every record in the files list of a published message was put into the
\* store by a put_object call of the publishing run that succeeded, and the
\* bucket of that call is the record's bucket field.
C1_PublishedFilesWereUploaded ==
    \A m \in DOMAIN messages :
        LET r == messages[m].by
            fs == messages[m].body.files IN
        \A j \in DOMAIN fs :
            \E i \in OkPuts(r) :
                /\ log[r][i].key = PathJoin(dir_path[r], fs[j].image_path)
                /\ log[r][i].bucket = fs[j].bucket

\* a message is out whose last record came with a bucket field of its own
C1_Witness ==
    \E m \in DOMAIN messages :
        /\ Len(messages[m].body.files) = MaxFiles
        /\ metadata[messages[m].by] = Doc(MaxFiles, StaleRecord(MaxFiles))

\* C2: a published message lists the records of the metadata document, as many
\* and in the same order, each with the fields it had plus the one bucket field,
\* which holds the resolved bucket name.
C2_FilesMirrorMetadata ==
    \A m \in DOMAIN messages :
        LET r == messages[m].by
            fs == messages[m].body.files
            md == metadata[r] IN
        /\ schema[r] = "accepts"
        /\ Len(fs) = Len(md)
        /\ \A j \in DOMAIN fs :
              /\ DOMAIN fs[j] = DOMAIN md[j] \cup {"bucket"}
              /\ \A k \in DOMAIN md[j] \ {"bucket"} : fs[j][k] = md[j][k]
              /\ fs[j].bucket = ResolveBucket(bucket_opt[r], dir_path[r])

C2_Witness ==
    \E m \in DOMAIN messages :
        /\ Len(messages[m].body.files) = MaxFiles
        /\ MaxFiles > 1
        /\ bucket_opt[messages[m].by] = <<>>
        /\ metadata[messages[m].by] = Doc(MaxFiles, PlainRecord(MaxFiles))

\* C3: a run that found no metadata file has printed the 'does not exist'
\* message and nothing else, is over, and has made no call to the schema
\* service, the store or the broker.
C3_NoMetadataNoCalls ==
    \A r \in Runs :
        (~present[r] /\ pc[r] # "start") =>
            /\ Finished(r)
            /\ echo[r] = <<"no_metadata_file">>
            /\ log[r] = <<>>
            /\ PublishedBy(r) = {}

C3_Witness ==
    \E r \in Runs : ~present[r] /\ Finished(r) /\ buckets # {} /\ messages # <<>>

\* C4: a run whose schema request met a connection error or a non-2xx answer,
\* or whose metadata the schema rejects, is over after that one request: it
\* has called neither the store nor the broker, so it created no bucket,
\* uploaded no object and published no message.
SchemaFailed(r) ==
    /\ log[r] # <<>>
    /\ \/ log[r][1].mode \in {"connection_error", "http_error"}
       \/ schema[r] = "rejects"

C4_SchemaFailureNoSideEffect ==
    \A r \in Runs :
        SchemaFailed(r) =>
            /\ Finished(r)
            /\ Len(log[r]) = 1
            /\ log[r][1].op = "schema_get"
            /\ CallsOf(r, StorageOps \cup BrokerOps) = {}
            /\ PublishedBy(r) = {}
            /\ \A b \in buckets : \E q \in Runs \ {r} :
                  \E i \in Entries(q) : log[q][i].op = "make_bucket" /\ log[q][i].ok
                                         /\ log[q][i].bucket = b

\* one run's metadata was rejected and the other's request met a connection
\* error
C4_Witness ==
    \E r \in Runs, q \in Runs :
        /\ schema[r] = "rejects" /\ Finished(r) /\ metadata[r] # <<>>
        /\ log[q] # <<>> /\ log[q][1].mode = "connection_error" /\ Finished(q)

\* C5: with no --bucket option the bucket is the part of the directory path
\* after its last '/', the whole path if it has none, in lower case; the path
\* a/b/MyData gives mydata.
LastSlash(s) ==
    IF \E i \in 1..Len(s) : s[i] = "/"
    THEN CHOOSE i \in 1..Len(s) : s[i] = "/" /\ \A j \in (i+1)..Len(s) : s[j] # "/"
    ELSE 0

C6_UploadFailureAborts ==
    \A r \in Runs :
        /\ \A i \in CallsOf(r, StorageOps) :
              ~log[r][i].ok => (i = Len(log[r]) /\ Finished(r) /\ Said(r, "err_upload"))
        /\ Said(r, "err_upload") =>
              /\ Finished(r)
              /\ CallsOf(r, BrokerOps) = {}
              /\ PublishedBy(r) = {}
              /\ PutsRemain(r)

\* the second put_object of a run raised after the first had stored its object
C6_Witness ==
    \E r \in Runs :
        /\ Said(r, "err_upload")
        /\ Len(log[r]) >= 2
        /\ log[r][Len(log[r])].op = "put_object" /\ ~log[r][Len(log[r])].ok
        /\ OkPuts(r) # {}
        /\ idx[r] <= Len(metadata[r])

\* C7: a run calls connect at most once and basic_publish at most once; a
\* broker call that raised is the run's last call, after which the run has
\* printed the broker error and is over, not crashed, and the bucket and the
\* objects of its upload step, one per metadata record, are in the store.
C7_BrokerFailureIsFinal ==
    \A r \in Runs :
        /\ Cardinality(CallsOf(r, {"connect"})) <= 1
        /\ Cardinality(CallsOf(r, {"basic_publish"})) <= 1
        /\ \A i \in CallsOf(r, BrokerOps) :
              ~log[r][i].ok =>
                  /\ i = Len(log[r])
                  /\ Finished(r)
                  /\ Said(r, "err_rabbit")
                  /\ ~Said(r, "err_upload")
                  /\ bucket[r] \in buckets
                  /\ Cardinality(OkPuts(r)) = Len(metadata[r])
                  /\ PutsRemain(r)

\* one run's connect raised and the other's basic_publish, each after a full
\* upload
C7_Witness ==
    \E r \in Runs, q \in Runs :
        /\ log[r] # <<>> /\ log[r][Len(log[r])].op = "connect" /\ ~log[r][Len(log[r])].ok
        /\ Cardinality(OkPuts(r)) = MaxFiles
        /\ log[q] # <<>> /\ log[q][Len(log[q])].op = "basic_publish" /\ ~log[q][Len(log[q])].ok
        /\ Cardinality(OkPuts(q)) = MaxFiles

\* C8: a run that found its bucket in the store says so and goes on to the
\* upload without calling make_bucket; once its upload step is over it has put
\* every record of its metadata, whatever the store held before; and when
\* every run has sent its message there are as many messages as runs.
FoundBucket(r) ==
    \E i \in Entries(r) : log[r][i].op = "bucket_exists" /\ log[r][i].ok /\ log[r][i].res

UploadOver(r) == pc[r] \in {"connect", "declare", "publish", "close"} \/ Said(r, "sent")

C8_RerunUploadsAndPublishesAgain ==
    /\ \A r \in Runs :
          /\ FoundBucket(r) =>
                /\ CallsOf(r, {"make_bucket"}) = {}
                /\ Said(r, "bucket_already_exists")
                /\ (log[r][Len(log[r])].op = "bucket_exists"
                      /\ echo[r][Len(echo[r])] = "bucket_already_exists") => pc[r] = "upload"
          /\ UploadOver(r) =>
                \A j \in DOMAIN metadata[r] :
                    Cardinality({ i \in OkPuts(r) :
                        log[r][i].key = PathJoin(dir_path[r], metadata[r][j].image_path) }) = 1
    /\ (\A r \in Runs : Said(r, "sent")) => Len(messages) = Cardinality(Runs)

\* two runs of the same command on the same metadata, the second begun after
\* the first was over, have both sent their message
C8_Witness ==
    \E r1 \in Runs, r2 \in Runs :
        /\ r1 # r2
        /\ dir_path[r1] = dir_path[r2] /\ bucket_opt[r1] = bucket_opt[r2]
        /\ metadata[r1] = metadata[r2] /\ Len(metadata[r1]) = MaxFiles
        /\ \E i \in Entries(r1) : log[r1][i].op = "make_bucket" /\ log[r1][i].ok
        /\ FoundBucket(r2)
        /\ Said(r1, "sent") /\ Said(r2, "sent")
        /\ Len(messages) = 2
        /\ messages[1].by = r1 /\ messages[2].by = r2

\* C9: the calls of a run are a prefix of: schema GET, bucket_exists,
\* make_bucket (present only if bucket_exists returned false), put_object of
\* each metadata record in document order, connect, durable queue_declare, one
\* persistent basic_publish, close.
Stage(op, key, mode) == [op |-> op, key |-> key, mode |-> mode]

CanonicalCalls(r, created) ==
    <<Stage("schema_get", <<>>, "ok"), Stage("bucket_exists", <<>>, "")>>
    \o (IF created THEN <<Stage("make_bucket", <<>>, "")>> ELSE <<>>)
    \o [j \in 1..Len(metadata[r]) |->
           Stage("put_object", PathJoin(dir_path[r], metadata[r][j].image_path), "")]
    \o <<Stage("connect", <<>>, ""), Stage("queue_declare", <<>>, "durable"),
         Stage("basic_publish", <<>>, "persistent"), Stage("close", <<>>, "")>>

C9_CallsInFixedOrder ==
    \A r \in Runs :
        LET created == \E i \in Entries(r) : log[r][i].op = "make_bucket"
            canon == CanonicalCalls(r, created) IN
        /\ Len(log[r]) <= Len(canon)
        /\ \A i \in Entries(r) :
              /\ log[r][i].op = canon[i].op
              /\ log[r][i].key = canon[i].key
              /\ log[r][i].op \in {"queue_declare", "basic_publish"} => log[r][i].mode = canon[i].mode
        /\ created => (log[r][2].ok /\ ~log[r][2].res)

C9_Witness ==
    \E r \in Runs :
        /\ Len(log[r]) = MaxFiles + 7
        /\ log[r][Len(log[r])].op = "close"

\* C10: a run whose make_bucket the store rejected had been told by
\* bucket_exists that the bucket was absent, another run created that bucket
\* in between, and the run is over with the upload error, having put no object
\* and published no message.
Rejected(r) ==
    \E i \in Entries(r) : log[r][i].op = "make_bucket" /\ log[r][i].mode = "rejected"

C10_LostRaceAborts ==
    \A r \in Runs :
        Rejected(r) =>
            /\ log[r][2].op = "bucket_exists" /\ log[r][2].ok /\ ~log[r][2].res
            /\ log[r][2].bucket = bucket[r]
            /\ \E q \in Runs \ {r} : \E i \in Entries(q) :
                  log[q][i].op = "make_bucket" /\ log[q][i].ok /\ log[q][i].bucket = bucket[r]
            /\ Finished(r)
            /\ Said(r, "err_upload")
            /\ CallsOf(r, {"put_object"} \cup BrokerOps) = {}
            /\ PublishedBy(r) = {}

\* both runs were told the bucket was absent and both called make_bucket; the
\* one that came second, its metadata valid and not empty, ended with the
\* upload error
C10_Witness ==
    \E r \in Runs, q \in Runs :
        /\ r # q
        /\ Rejected(r)
        /\ schema[r] = "accepts" /\ Len(metadata[r]) = MaxFiles
        /\ Said(r, "err_upload")
        /\ bucket[q] = bucket[r]
        /\ Len(log[q]) >= 3
        /\ log[q][2].op = "bucket_exists" /\ ~log[q][2].res
        /\ log[q][3].op = "make_bucket" /\ log[q][3].ok

====
